---- MODULE Spec2Model ----
(***************************************************************************)
(* Model of the PWM / tachometer validation harness:                       *)
(*   hw_fault_simulation.py  - the fault-injected signal model             *)
(*   tacho_test.py           - validate_pwm_vs_tacho, run_validation_sweep *)
(*   csv_logger.py           - CsvLogger.log_row                           *)
(* Python floats are IEEE-754 binary64; the arithmetic the code performs   *)
(* on them is modelled bit-exactly on 53-bit significands.                 *)
(***************************************************************************)
EXTENDS Integers, Sequences, FiniteSets, TLC

\* ------------------------------------------------------------------------
\* Python values
\* ------------------------------------------------------------------------
\* An optional int (int | None) is a sequence of at most one int.
None == <<>>

Some(v) == <<v>>

\* str(x) as csv.writer writes an optional int: None becomes the empty field
Field(x) == IF x = None THEN "" ELSE ToString(x[1])

\* ------------------------------------------------------------------------
\* binary64 arithmetic (round to nearest, ties to even).
\* A big natural number is a sequence of 16-bit limbs, most significant
\* first.  A positive float is [m |-> <<l3, l2, l1, l0>>, e |-> x] with
\* 16 <= l3 < 32 (a 53-bit significand) and x the exponent of its leading
\* bit; zero has m = <<>>.
\* ------------------------------------------------------------------------
MantBits == 53

LimbBits == 16

RECURSIVE Pow2(_)
Pow2(n) ==
    IF n = 0 THEN 1
    ELSE IF n % 2 = 0 THEN LET h == Pow2(n \div 2) IN h * h
    ELSE 2 * Pow2(n - 1)

Base == Pow2(LimbBits)

FZero == [m |-> <<>>, e |-> 0]

Zeros(k) == [i \in 1..k |-> 0]

\* limb q of w, counted from the least significant limb (q = 0)
LimbAt(w, q) == IF q >= 0 /\ q < Len(w) THEN w[Len(w) - q] ELSE 0

\* the number made of bits j .. j + width - 1 of w (width <= 16)
Window(w, j, width) ==
    LET q == j \div LimbBits
        o == j % LimbBits
    IN  ((LimbAt(w, q) \div Pow2(o)) + (LimbAt(w, q + 1) % Pow2(o)) * Pow2(LimbBits - o))
            % Pow2(width)

\* w without its leading zero limbs
Strip(w) ==
    LET nz == {i \in 1..Len(w) : w[i] # 0}
    IN  IF nz = {} THEN <<>>
        ELSE SubSeq(w, CHOOSE i \in nz : \A j \in nz : i <= j, Len(w))

\* number of significant bits of a stripped, non-zero w
BitLen(w) ==
    LimbBits * (Len(w) - 1)
        + (CHOOSE k \in 1..LimbBits : Pow2(k - 1) <= w[1] /\ w[1] < Pow2(k))

\* some bit below bit j of w is set
LowBitsSet(w, j) ==
    \E q \in 0..(Len(w) - 1) :
        IF LimbBits * (q + 1) <= j THEN LimbAt(w, q) # 0
        ELSE IF LimbBits * q < j THEN LimbAt(w, q) % Pow2(j - LimbBits * q) # 0
        ELSE FALSE

\* significand + 1; a carry out of the top limb leaves 32 there
Incr(m) ==
    LET low == {i \in 1..Len(m) : m[i] < Base - 1}
        k   == IF low = {} THEN 1 ELSE CHOOSE i \in low : \A j \in low : j <= i
    IN  [i \in 1..Len(m) |-> IF i < k THEN m[i] ELSE IF i = k THEN m[i] + 1 ELSE 0]

\* Round the number w * 2^lsb (plus, when sticky, a non-zero fraction of
\* 2^lsb) to binary64.
RoundNearestEven(w, lsb, sticky) ==
    LET v == Strip(w) \o Zeros(4)
    IN  IF Strip(w) = <<>> THEN FZero
        ELSE LET s     == BitLen(v) - MantBits
                 top   == <<Window(v, s + 48, 5), Window(v, s + 32, 16),
                            Window(v, s + 16, 16), Window(v, s, 16)>>
                 guard == Window(v, s - 1, 1)
                 rest  == sticky \/ LowBitsSet(v, s - 1)
                 up    == guard = 1 /\ (rest \/ top[4] % 2 = 1)
                 inc   == Incr(top)
                 lead  == lsb - 4 * LimbBits + BitLen(v) - 1
             IN  IF ~up THEN [m |-> top, e |-> lead]
                 ELSE IF inc[1] = 32 THEN [m |-> <<16, 0, 0, 0>>, e |-> lead + 1]
                 ELSE [m |-> inc, e |-> lead]

\* float(n) for an int n >= 0
FromInt(n) == RoundNearestEven(<<n \div Base, n % Base>>, 0, FALSE)

\* long division of the limbs w[i..] by d < 2^15 with incoming remainder r
RECURSIVE LongDiv(_, _, _, _, _)
LongDiv(w, i, d, r, acc) ==
    IF i > Len(w) THEN [q |-> acc, r |-> r]
    ELSE LET t == r * Base + w[i]
         IN  LongDiv(w, i + 1, d, t % d, Append(acc, t \div d))

\* a / d for ints 0 <= a < 2^16, 0 < d < 2^15 (Python true division of
\* ints, which is correctly rounded)
TrueDiv(a, d) ==
    LET ld == LongDiv(<<a>> \o Zeros(5), 1, d, 0, <<>>)
    IN  RoundNearestEven(ld.q, -5 * LimbBits, ld.r # 0)

\* limbs of w * k + c * Base^i, given the low limbs acc of the product
RECURSIVE MulLimbs(_, _, _, _, _)
MulLimbs(w, i, k, c, acc) ==
    IF i = 0 THEN <<c>> \o acc
    ELSE LET v == w[i] * k + c
         IN  MulLimbs(w, i - 1, k, v \div Base, <<v % Base>> \o acc)

\* x * k for a float x >= 0 and an int 0 <= k < 2^14 (the int operand
\* is converted exactly, the product is rounded once)
MulInt(x, k) ==
    IF x.m = <<>> THEN FZero
    ELSE RoundNearestEven(MulLimbs(x.m, Len(x.m), k, 0, <<>>), x.e - (MantBits - 1), FALSE)

\* a - b for limb sequences of equal length, a >= b
RECURSIVE SubLimbs(_, _, _, _, _)
SubLimbs(a, b, i, borrow, acc) ==
    IF i = 0 THEN acc
    ELSE LET v == a[i] - b[i] - borrow
         IN  SubLimbs(a, b, i - 1, IF v < 0 THEN 1 ELSE 0, <<(v + Base) % Base>> \o acc)

\* 1 - g for a float g in [0, 1]
OneMinus(g) ==
    IF g.m = <<>> THEN FromInt(1)
    ELSE LET p   == (MantBits - 1) - g.e
             n   == p \div LimbBits + 1
             one == [i \in 1..n |-> IF i = 1 THEN Pow2(p % LimbBits) ELSE 0]
             sub == Zeros(n - Len(g.m)) \o g.m
         IN  RoundNearestEven(SubLimbs(one, sub, n, 0, <<>>), -p, FALSE)

LimbsLe(a, b) ==
    a = b \/ \E i \in 1..Len(a) : a[i] < b[i] /\ \A j \in 1..(i - 1) : a[j] = b[j]

\* x <= y for floats x, y >= 0
FLe(x, y) ==
    IF x.m = <<>> THEN TRUE
    ELSE IF y.m = <<>> THEN FALSE
    ELSE x.e < y.e \/ (x.e = y.e /\ LimbsLe(x.m, y.m))

\* int(x) for a float 0 <= x < 2^31
Trunc(x) ==
    IF x.m = <<>> \/ x.e < 0 THEN 0
    ELSE LET s == (MantBits - 1) - x.e
         IN  Window(x.m, s + 16, 15) * Base + Window(x.m, s, 16)

\* ------------------------------------------------------------------------
\* Arguments the callers pass.  Levels are written in hundredths: the
\* argument 30 stands for the Python float 0.30, i.e. TrueDiv(30, 100).
\* ------------------------------------------------------------------------
DutyArgs == {-1, 0, 20, 50, 101}

DegradationArgs == {-10, 0, 30, 90, 110}

NoiseArgs == {-5, 0, 12}

\* Readings that max(0, int(base_rpm + noise)) can take when the standard
\* deviation of the Gaussian draw is positive.
NoisyReadings == {50, 1099, 1101}

ExpectedArgs == {None, Some(-1), Some(0), Some(625), Some(1000)}

ToleranceArgs == {-1, 10, 28, 100, 101}

StabilizationArgs == {-1, 1}

MaxSamples == 2

SampleArgs == 0..MaxSamples

\* run_validation_sweep arguments: <<pwm_min, pwm_max, pwm_step>>
SweepRanges == {<<0, 40, 20>>, <<50, 150, 50>>, <<40, 0, -20>>, <<0, 40, 0>>}

\* expected_rpm_map arguments (dicts): the device curve, a map with a wrong
\* entry and a missing one, and the empty map
ExpectedMaps ==
    { (0 :> 0) @@ (20 :> 800) @@ (40 :> 1600) @@ (50 :> 2000) @@ (100 :> 4000),
      (0 :> 0) @@ (20 :> 625) @@ (50 :> 1000),
      [k \in {} |-> 0] }

SweepToleranceArgs == {10, 101}

SweepSampleArgs == {1}

\* pwm_tacho_map of the __main__ block of tacho_test.py
pwm_tacho_map ==
    (0 :> 0) @@ (20 :> 800) @@ (40 :> 1600) @@ (60 :> 2400) @@ (80 :> 3200) @@ (100 :> 4000)

\* the argument tuples of run_validation_sweep:
\* <<range, expected_rpm_map, tolerance_percent, stabilization_time, number_samples>>
SweepCalls ==
    SweepRanges \X ExpectedMaps \X SweepToleranceArgs \X StabilizationArgs \X SweepSampleArgs

\* calls with the range and the map of the __main__ block, 0 to 100 in steps
\* of 20 over pwm_tacho_map, at both ends of the tolerance range
MainSweeps == {<<0, 100, 20>>} \X {pwm_tacho_map} \X {0, 100} \X {1} \X SweepSampleArgs

PWM_CHANNEL == 0

TACHO_CHANNEL == 0

\* ------------------------------------------------------------------------
\* State
\* ------------------------------------------------------------------------
VARIABLES
    current_pwm,          \* hw_fault_simulation._current_pwm
    fan_stall_enabled,    \* hw_fault_simulation._fan_stall_enabled
    fan_degradation,      \* hw_fault_simulation._fan_degradation (hundredths)
    tacho_disconnected,   \* hw_fault_simulation._tacho_disconnected
    pwm_disconnected,     \* hw_fault_simulation._pwm_disconnected
    noise_level,          \* hw_fault_simulation._noise_level (hundredths)
    pc,                   \* where the caller is: "idle", "returned", "sweep"
    call,                 \* the call that returned last: [op, arg]
    ret,                  \* what it returned, or the exception it raised
    hw_calls,             \* set_pwm_duty_cycle / get_tacho_reading calls it made
    sweep_args,           \* run_validation_sweep: its arguments while it runs
    sweep_pwm,            \* run_validation_sweep: the loop variable pwm
    failures,             \* run_validation_sweep: failures
    results,              \* run_validation_sweep: results, <<key, value>> in insertion order
    result,               \* run_validation_sweep: result, None while unbound
    csv_logger            \* the CsvLogger of the sweep: None or Some(rows)

hw == <<current_pwm, fan_stall_enabled, fan_degradation, tacho_disconnected,
        pwm_disconnected, noise_level>>

faults == <<fan_stall_enabled, fan_degradation, tacho_disconnected,
            pwm_disconnected, noise_level>>

\* ------------------------------------------------------------------------
\* hw_fault_simulation.py
\* ------------------------------------------------------------------------
\* _set_pwm_duty_cycle: the value of _current_pwm after the call
_set_pwm_duty_cycle(channel, duty_cycle) == duty_cycle

\* _get_tacho_reading
_get_tacho_reading(channel, pwm) == IF pwm < 20 THEN 0 ELSE pwm * 40

\* set_pwm_duty_cycle without the early return on the disconnected fault
set_pwm_duty_cycle_ignoring_fault(channel, duty_cycle, pwm, disconnected) ==
    _set_pwm_duty_cycle(channel, duty_cycle)

\* set_pwm_duty_cycle: the value of _current_pwm after the call
set_pwm_duty_cycle(channel, duty_cycle, pwm, disconnected) ==
    IF disconnected THEN pwm ELSE _set_pwm_duty_cycle(channel, duty_cycle)

\* base_rpm of get_tacho_reading after the degradation step, a float
DegradedRpm(pwm, degradation) ==
    IF degradation > 0
    THEN MulInt(OneMinus(TrueDiv(degradation, 100)), _get_tacho_reading(TACHO_CHANNEL, pwm))
    ELSE FromInt(_get_tacho_reading(TACHO_CHANNEL, pwm))

\* get_tacho_reading with the early return taken for a stalled fan only
get_tacho_reading_stall_only(channel, pwm, stall, degradation, tacho, noise) ==
    IF stall THEN {0}
    ELSE LET base_rpm == DegradedRpm(pwm, degradation)
         IN  IF base_rpm.m = <<>> \/ noise = 0
             THEN {Trunc(base_rpm)}
             ELSE NoisyReadings

\* get_tacho_reading: the set of values the call can return.  std_dev is
\* base_rpm * _noise_level; random.gauss(0, 0.0) is 0.0, and with a
\* positive std_dev the draw is unconstrained.
get_tacho_reading(channel, pwm, stall, degradation, tacho, noise) ==
    IF stall \/ tacho THEN {0}
    ELSE LET base_rpm == DegradedRpm(pwm, degradation)
         IN  IF base_rpm.m = <<>> \/ noise = 0
             THEN {Trunc(base_rpm)}
             ELSE NoisyReadings

sweep == <<sweep_args, sweep_pwm, failures, results, result, csv_logger>>

\* simulate_fan_degradation with the upper range check missing
simulate_fan_degradation_no_upper(degradation_level, degradation) ==
    IF degradation_level < 0
    THEN [raised |-> "ValueError", level |-> degradation]
    ELSE [raised |-> "", level |-> degradation_level]

\* simulate_fan_degradation: the exception raised ("" for none) and the value
\* of _fan_degradation after the call
simulate_fan_degradation(degradation_level, degradation) ==
    IF degradation_level < 0 \/ degradation_level > 100
    THEN [raised |-> "ValueError", level |-> degradation]
    ELSE [raised |-> "", level |-> degradation_level]

\* set_tacho_noise_level: the exception raised ("" for none) and the value of
\* _noise_level after the call
set_tacho_noise_level(noise_factor, noise) ==
    IF noise_factor < 0
    THEN [raised |-> "ValueError", level |-> noise]
    ELSE [raised |-> "", level |-> noise_factor]

Returns(op, arg, value, calls) ==
    /\ pc' = "returned"
    /\ call' = [op |-> op, arg |-> arg]
    /\ ret' = [value |-> value, raised |-> ""]
    /\ hw_calls' = calls

Raises(op, arg, exception) ==
    /\ pc' = "returned"
    /\ call' = [op |-> op, arg |-> arg]
    /\ ret' = [value |-> None, raised |-> exception]
    /\ hw_calls' = <<>>

SetPwmDutyCycle ==
    /\ UNCHANGED sweep
    /\ pc = "idle"
    /\ \E d \in DutyArgs :
        /\ current_pwm' = set_pwm_duty_cycle(PWM_CHANNEL, d, current_pwm, pwm_disconnected)
        /\ Returns("set_pwm_duty_cycle", d, None, <<"set">>)
    /\ UNCHANGED faults

GetTachoReading ==
    /\ UNCHANGED sweep
    /\ pc = "idle"
    /\ \E rpm \in get_tacho_reading(TACHO_CHANNEL, current_pwm, fan_stall_enabled,
                                    fan_degradation, tacho_disconnected, noise_level) :
        Returns("get_tacho_reading", None, rpm, <<"read">>)
    /\ UNCHANGED hw

SimulateFanStall ==
    /\ UNCHANGED sweep
    /\ pc = "idle"
    /\ \E enable \in BOOLEAN :
        /\ fan_stall_enabled' = enable
        /\ Returns("simulate_fan_stall", enable, None, <<>>)
    /\ UNCHANGED <<current_pwm, fan_degradation, tacho_disconnected, pwm_disconnected, noise_level>>

SimulateFanDegradation ==
    /\ UNCHANGED sweep
    /\ pc = "idle"
    /\ \E degradation_level \in DegradationArgs :
        LET out == simulate_fan_degradation(degradation_level, fan_degradation)
        IN  /\ fan_degradation' = out.level
            /\ IF out.raised # ""
               THEN Raises("simulate_fan_degradation", degradation_level, out.raised)
               ELSE Returns("simulate_fan_degradation", degradation_level, None, <<>>)
    /\ UNCHANGED <<current_pwm, fan_stall_enabled, tacho_disconnected, pwm_disconnected, noise_level>>

SimulateDisconnectedTacho ==
    /\ UNCHANGED sweep
    /\ pc = "idle"
    /\ \E enable \in BOOLEAN :
        /\ tacho_disconnected' = enable
        /\ Returns("simulate_disconnected_tacho", enable, None, <<>>)
    /\ UNCHANGED <<current_pwm, fan_stall_enabled, fan_degradation, pwm_disconnected, noise_level>>

SimulateDisconnectedPwm ==
    /\ UNCHANGED sweep
    /\ pc = "idle"
    /\ \E enable \in BOOLEAN :
        /\ pwm_disconnected' = enable
        /\ Returns("simulate_disconnected_pwm", enable, None, <<>>)
    /\ UNCHANGED <<current_pwm, fan_stall_enabled, fan_degradation, tacho_disconnected, noise_level>>

SetTachoNoiseLevel ==
    /\ UNCHANGED sweep
    /\ pc = "idle"
    /\ \E noise_factor \in NoiseArgs :
        LET out == set_tacho_noise_level(noise_factor, noise_level)
        IN  /\ noise_level' = out.level
            /\ IF out.raised # ""
               THEN Raises("set_tacho_noise_level", noise_factor, out.raised)
               ELSE Returns("set_tacho_noise_level", noise_factor, None, <<>>)
    /\ UNCHANGED <<current_pwm, fan_stall_enabled, fan_degradation, tacho_disconnected, pwm_disconnected>>

\* a reset that also puts the duty cycle back to 0
ResetAllFaults_clearing_pwm ==
    /\ UNCHANGED sweep
    /\ pc = "idle"
    /\ fan_stall_enabled' = FALSE
    /\ fan_degradation' = 0
    /\ tacho_disconnected' = FALSE
    /\ pwm_disconnected' = pwm_disconnected
    /\ noise_level' = 0
    /\ Returns("reset_all_faults", None, None, <<>>)
    /\ current_pwm' = 0

\* reset_all_faults.  Its global statement names _pwm_disconnected with a
\* stray trailing character, so the assignment _pwm_disconnected = False
\* binds a local variable and the module-level flag keeps its value.
ResetAllFaults ==
    /\ UNCHANGED sweep
    /\ pc = "idle"
    /\ fan_stall_enabled' = FALSE
    /\ fan_degradation' = 0
    /\ tacho_disconnected' = FALSE
    /\ pwm_disconnected' = pwm_disconnected
    /\ noise_level' = 0
    /\ Returns("reset_all_faults", None, None, <<>>)
    /\ UNCHANGED current_pwm

\* the caller takes the returned value (and the csv file, if any) and goes on
Continue ==
    /\ csv_logger' = None
    /\ UNCHANGED <<sweep_args, sweep_pwm, failures, results, result>>
    /\ pc = "returned"
    /\ pc' = "idle"
    /\ call' = [op |-> "", arg |-> None]
    /\ ret' = [value |-> None, raised |-> ""]
    /\ hw_calls' = <<>>
    /\ UNCHANGED hw

\* ------------------------------------------------------------------------
\* csv_logger.py
\* ------------------------------------------------------------------------
\* CsvLogger.log_row: the logger after the call.  A logger is Some(rows),
\* the rows written below the header, each a tuple of the field texts; the
\* guard is the callers' "if csv_logger:".
log_row(logger, pwm, expected_rpm, measured_rpm, outcome) ==
    IF logger = None THEN None
    ELSE Some(Append(logger[1],
                     <<ToString(pwm), Field(expected_rpm), Field(measured_rpm), outcome>>))

\* ------------------------------------------------------------------------
\* tacho_test.py: validate_pwm_vs_tacho
\* ------------------------------------------------------------------------
NoError == ""

\* the parameter checks with expected_rpm checked before pwm_value
ParameterError_expected_first(pwm_value, expected_rpm, tolerance_percent, stabilization_time, number_samples) ==
    IF expected_rpm = None \/ expected_rpm[1] < 0 THEN "Invalid expected RPM"
    ELSE IF pwm_value < 0 \/ pwm_value > 100 THEN "Invalid PWM value"
    ELSE IF tolerance_percent < 0 \/ tolerance_percent > 100 THEN "Invalid tolerance percentage"
    ELSE IF stabilization_time < 0 THEN "Invalid stabilization time"
    ELSE IF number_samples < 1 THEN "Invalid number of samples"
    ELSE NoError

\* the message of the first parameter check that fails, NoError when all pass
ParameterError(pwm_value, expected_rpm, tolerance_percent, stabilization_time, number_samples) ==
    IF pwm_value < 0 \/ pwm_value > 100 THEN "Invalid PWM value"
    ELSE IF expected_rpm = None \/ expected_rpm[1] < 0 THEN "Invalid expected RPM"
    ELSE IF tolerance_percent < 0 \/ tolerance_percent > 100 THEN "Invalid tolerance percentage"
    ELSE IF stabilization_time < 0 THEN "Invalid stabilization time"
    ELSE IF number_samples < 1 THEN "Invalid number of samples"
    ELSE NoError

\* the result dictionary of a failed parameter check
ParameterFailure(msg, pwm_value, expected_rpm) ==
    [result |-> "FAIL", error_message |-> msg, pwm_value |-> pwm_value,
     measured_rpm |-> None, expected_rpm |-> expected_rpm]

RECURSIVE Sum(_, _)
Sum(readings, i) == IF i = 0 THEN 0 ELSE readings[i] + Sum(readings, i - 1)

\* int(sum(rpm_readings) / len(rpm_readings))
MeasuredRpm(rpm_readings) ==
    Trunc(TrueDiv(Sum(rpm_readings, Len(rpm_readings)), Len(rpm_readings)))

StallMessage(pwm_value) ==
    "ERROR: Fan stall detected at PWM " \o ToString(pwm_value) \o "%"

\* abs(((measured_rpm - expected_rpm) / expected_rpm) * 100) <= tolerance_percent
WithinTolerance(measured_rpm, expected_rpm, tolerance_percent) ==
    LET diff == IF measured_rpm >= expected_rpm THEN measured_rpm - expected_rpm
                ELSE expected_rpm - measured_rpm
    IN  FLe(MulInt(TrueDiv(diff, expected_rpm), 100), FromInt(tolerance_percent))

\* the result dictionary with the stall check left out
Verdict_without_stall_check(pwm_value, expected_rpm, tolerance_percent, measured_rpm) ==
    LET r0 == [result |-> "PASS", error_message |-> <<>>, pwm_value |-> pwm_value,
               measured_rpm |-> Some(measured_rpm), expected_rpm |-> Some(expected_rpm)]
    IN  IF expected_rpm > 0
        THEN IF WithinTolerance(measured_rpm, expected_rpm, tolerance_percent)
             THEN [r0 EXCEPT !.result = "PASS"]
             ELSE [r0 EXCEPT !.result = "FAIL"]
        ELSE r0

\* the result dictionary built from the averaged measurement
Verdict(pwm_value, expected_rpm, tolerance_percent, measured_rpm) ==
    LET stall == pwm_value >= 20 /\ measured_rpm < 100
        r0 == [result |-> "PASS", error_message |-> <<>>, pwm_value |-> pwm_value,
               measured_rpm |-> Some(measured_rpm), expected_rpm |-> Some(expected_rpm)]
        r1 == IF stall
              THEN [r0 EXCEPT !.result = "FAIL",
                              !.error_message = Append(@, StallMessage(pwm_value))]
              ELSE r0
    IN  IF expected_rpm > 0
        THEN IF WithinTolerance(measured_rpm, expected_rpm, tolerance_percent)
             THEN [r1 EXCEPT !.result = "PASS"]
             ELSE [r1 EXCEPT !.result = "FAIL"]
        ELSE r1

\* the module globals of hw_fault_simulation as one value
Device ==
    [pwm |-> current_pwm, stall |-> fan_stall_enabled, degradation |-> fan_degradation,
     tacho |-> tacho_disconnected, disconnected |-> pwm_disconnected, noise |-> noise_level]

\* validate_pwm_vs_tacho applying the duty cycle before it checks its
\* parameters
validate_pwm_vs_tacho_setting_first(pwm_value, expected_rpm, tolerance_percent, stabilization_time, number_samples, logger, dev) ==
    LET msg == ParameterError(pwm_value, expected_rpm, tolerance_percent,
                              stabilization_time, number_samples)
        duty == set_pwm_duty_cycle(PWM_CHANNEL, pwm_value, dev.pwm, dev.disconnected)
    IN  IF msg # NoError
        THEN {[result |-> ParameterFailure(msg, pwm_value, expected_rpm),
               pwm |-> duty,
               csv |-> log_row(logger, pwm_value, expected_rpm, None, "FAIL"),
               calls |-> <<"set">>]}
        ELSE LET rpms == get_tacho_reading(TACHO_CHANNEL, duty, dev.stall, dev.degradation,
                                           dev.tacho, dev.noise)
             IN  {[result |-> Verdict(pwm_value, expected_rpm[1], tolerance_percent,
                                      MeasuredRpm(rpm_readings)),
                   pwm |-> duty,
                   csv |-> logger,
                   calls |-> <<"set">> \o [i \in 1..number_samples |-> "read"]] :
                  rpm_readings \in [1..number_samples -> rpms]}

\* validate_pwm_vs_tacho called with the device in state dev: the set of
\* outcomes [result, pwm, csv, calls] the call can have, one per choice of
\* readings; pwm is _current_pwm and csv the logger after the call
validate_pwm_vs_tacho(pwm_value, expected_rpm, tolerance_percent, stabilization_time, number_samples, logger, dev) ==
    LET msg == ParameterError(pwm_value, expected_rpm, tolerance_percent,
                              stabilization_time, number_samples)
    IN  IF msg # NoError
        THEN {[result |-> ParameterFailure(msg, pwm_value, expected_rpm),
               pwm |-> dev.pwm,
               csv |-> log_row(logger, pwm_value, expected_rpm, None, "FAIL"),
               calls |-> <<>>]}
        ELSE LET duty == set_pwm_duty_cycle(PWM_CHANNEL, pwm_value, dev.pwm, dev.disconnected)
                 rpms == get_tacho_reading(TACHO_CHANNEL, duty, dev.stall, dev.degradation,
                                           dev.tacho, dev.noise)
             IN  {[result |-> Verdict(pwm_value, expected_rpm[1], tolerance_percent,
                                      MeasuredRpm(rpm_readings)),
                   pwm |-> duty,
                   csv |-> logger,
                   calls |-> <<"set">> \o [i \in 1..number_samples |-> "read"]] :
                  rpm_readings \in [1..number_samples -> rpms]}

ValidatePwmVsTacho ==
    /\ UNCHANGED sweep
    /\ pc = "idle"
    /\ \E pwm_value \in DutyArgs, expected_rpm \in ExpectedArgs,
          tolerance_percent \in ToleranceArgs, stabilization_time \in StabilizationArgs,
          number_samples \in SampleArgs :
        \E out \in validate_pwm_vs_tacho(pwm_value, expected_rpm, tolerance_percent,
                                         stabilization_time, number_samples, None,
                                         Device) :
            /\ current_pwm' = out.pwm
            /\ Returns("validate_pwm_vs_tacho",
                       <<pwm_value, expected_rpm, tolerance_percent, stabilization_time,
                         number_samples>>,
                       out.result, out.calls)
    /\ UNCHANGED faults

\* ------------------------------------------------------------------------
\* tacho_test.py: run_validation_sweep
\* ------------------------------------------------------------------------
\* a lookup that raises KeyError for a missing key, as expected_rpm_map[pwm]
dict_get_raising(map, key) ==
    IF key \in DOMAIN map THEN [value |-> Some(map[key]), raised |-> ""]
    ELSE [value |-> None, raised |-> "KeyError"]

\* expected_rpm_map.get(pwm) inside the try block: dict.get gives None for a
\* missing key and raises nothing
dict_get(map, key) ==
    [value |-> IF key \in DOMAIN map THEN Some(map[key]) ELSE None, raised |-> ""]

\* results[key] = value on a dict kept in insertion order
dict_set(d, key, value) ==
    IF \E i \in 1..Len(d) : d[i][1] = key
    THEN [i \in 1..Len(d) |-> IF d[i][1] = key THEN <<key, value>> ELSE d[i]]
    ELSE Append(d, <<key, value>>)

\* the loop over range(pwm_min, pwm_max, pwm_step), which leaves pwm_max out
InRange_exclusive(pwm, pwm_max, pwm_step) ==
    IF pwm_step > 0 THEN pwm < pwm_max ELSE pwm > pwm_max

\* pwm is still inside range(pwm_min, pwm_max + 1, pwm_step)
InRange(pwm, pwm_max, pwm_step) ==
    IF pwm_step > 0 THEN pwm < pwm_max + 1 ELSE pwm > pwm_max + 1

NoSweep == [pwm_min |-> 0, pwm_max |-> 0, pwm_step |-> 0, expected_rpm_map |-> <<>>,
            tolerance_percent |-> 0, stabilization_time |-> 0, number_samples |-> 0]

SweepIdle ==
    /\ sweep_args = NoSweep
    /\ sweep_pwm = 0
    /\ failures = 0
    /\ results = <<>>
    /\ result = None
    /\ csv_logger = None

\* the call of run_validation_sweep up to the loop, with its arguments drawn
\* from calls and its csv_logger from loggers
StartSweep(calls, loggers) ==
    /\ pc = "idle"
    /\ \E a \in calls, logger \in loggers :
        LET args == [pwm_min |-> a[1][1], pwm_max |-> a[1][2], pwm_step |-> a[1][3],
                     expected_rpm_map |-> a[2],
                     tolerance_percent |-> a[3],
                     stabilization_time |-> a[4],
                     number_samples |-> a[5]]
        IN  IF args.pwm_step = 0
            THEN /\ Raises("run_validation_sweep", args, "ValueError")
                 /\ UNCHANGED sweep
            ELSE /\ pc' = "sweep"
                 /\ sweep_args' = args
                 /\ sweep_pwm' = args.pwm_min
                 /\ failures' = 0
                 /\ results' = <<>>
                 /\ result' = None
                 /\ csv_logger' = logger
                 /\ UNCHANGED <<call, ret, hw_calls>>
    /\ UNCHANGED hw

\* run_validation_sweep called without or with a CsvLogger; tacho_cli.run
\* creates the logger (a fresh file) just before the call
RunValidationSweep == StartSweep(SweepCalls, {None, Some(<<>>)})

\* run_validation_sweep called as the __main__ block of tacho_test.py calls
\* it, with the CsvLogger the block has just created
RunMainSweep == StartSweep(MainSweeps, {Some(<<>>)})

SweepEnds(value, exception) ==
    /\ pc' = "returned"
    /\ call' = [op |-> "run_validation_sweep", arg |-> sweep_args]
    /\ ret' = [value |-> value, raised |-> exception]
    /\ hw_calls' = <<>>
    /\ sweep_args' = NoSweep
    /\ sweep_pwm' = 0
    /\ failures' = 0
    /\ results' = <<>>
    /\ result' = None

\* a count that skips the results of failed parameter checks
count_failure_measured_only(count, res) ==
    IF res.result = "FAIL" /\ res.measured_rpm # None THEN count + 1 ELSE count

\* if result["result"] == "FAIL": failures += 1
count_failure(count, res) == IF res.result = "FAIL" THEN count + 1 ELSE count

\* after the try statement of one iteration: the log line, the csv row,
\* the failure count
SweepTail(expected_rpm, res, logger) ==
    /\ csv_logger' = log_row(logger, sweep_pwm, expected_rpm, res.measured_rpm, res.result)
    /\ failures' = count_failure(failures, res)
    /\ sweep_pwm' = sweep_pwm + sweep_args.pwm_step
    /\ UNCHANGED <<pc, call, ret, hw_calls, sweep_args>>

\* one iteration of the for loop
SweepStep ==
    /\ pc = "sweep"
    /\ InRange(sweep_pwm, sweep_args.pwm_max, sweep_args.pwm_step)
    /\ LET got == dict_get(sweep_args.expected_rpm_map, sweep_pwm)
       IN  IF got.raised = "KeyError"
           THEN \* except KeyError: an entry is stored and result is not
                \* assigned; line 163 then reads result, which is unbound in
                \* the first iteration and the previous point's otherwise
                /\ UNCHANGED hw
                /\ IF result = None
                   THEN /\ SweepEnds(None, "UnboundLocalError")
                        /\ UNCHANGED csv_logger
                   ELSE /\ results' = dict_set(results, sweep_pwm,
                                               [result |-> "FAIL",
                                                error_message |-> <<"Invalid expected RPM: "
                                                                    \o ToString(sweep_pwm)>>])
                        /\ result' = result
                        /\ SweepTail(result[1].expected_rpm, result[1], csv_logger)
           ELSE \E out \in validate_pwm_vs_tacho(sweep_pwm, got.value,
                                sweep_args.tolerance_percent, sweep_args.stabilization_time,
                                sweep_args.number_samples, csv_logger, Device) :
                /\ current_pwm' = out.pwm
                /\ UNCHANGED faults
                /\ result' = Some(out.result)
                /\ results' = dict_set(results, sweep_pwm, out.result)
                /\ SweepTail(got.value, out.result, out.csv)

\* the loop is exhausted: return failures, results
SweepReturn ==
    /\ pc = "sweep"
    /\ ~InRange(sweep_pwm, sweep_args.pwm_max, sweep_args.pwm_step)
    /\ SweepEnds(<<failures, results>>, "")
    /\ UNCHANGED <<hw, csv_logger>>

vars == <<current_pwm, fan_stall_enabled, fan_degradation, tacho_disconnected,
          pwm_disconnected, noise_level, pc, call, ret, hw_calls,
          sweep_args, sweep_pwm, failures, results, result, csv_logger>>

Init ==
    /\ current_pwm = 0
    /\ fan_stall_enabled = FALSE
    /\ fan_degradation = 0
    /\ tacho_disconnected = FALSE
    /\ pwm_disconnected = FALSE
    /\ noise_level = 0
    /\ pc = "idle"
    /\ call = [op |-> "", arg |-> None]
    /\ ret = [value |-> None, raised |-> ""]
    /\ hw_calls = <<>>
    /\ SweepIdle

NextHw ==
    \/ SetPwmDutyCycle
    \/ GetTachoReading
    \/ SimulateFanStall
    \/ SimulateFanDegradation
    \/ SimulateDisconnectedTacho
    \/ SimulateDisconnectedPwm
    \/ SetTachoNoiseLevel
    \/ ResetAllFaults
    \/ Continue

SpecHw == Init /\ [][NextHw]_vars

NextValidate ==
    \/ NextHw
    \/ ValidatePwmVsTacho

SpecValidate == Init /\ [][NextValidate]_vars

NextSweep ==
    \/ NextHw
    \/ RunValidationSweep
    \/ SweepStep
    \/ SweepReturn

SpecSweep == Init /\ [][NextSweep]_vars

\* the device driven through the validation engine only: no direct call of
\* set_pwm_duty_cycle or get_tacho_reading
NextEngine ==
    \/ SimulateFanStall
    \/ SimulateFanDegradation
    \/ SimulateDisconnectedTacho
    \/ SimulateDisconnectedPwm
    \/ SetTachoNoiseLevel
    \/ ResetAllFaults
    \/ Continue
    \/ ValidatePwmVsTacho
    \/ RunValidationSweep
    \/ SweepStep
    \/ SweepReturn

SpecEngine == Init /\ [][NextEngine]_vars

NextMain ==
    \/ NextSweep
    \/ RunMainSweep

SpecMain == Init /\ [][NextMain]_vars

Next ==
    \/ NextHw
    \/ ValidatePwmVsTacho
    \/ RunValidationSweep
    \/ RunMainSweep
    \/ SweepStep
    \/ SweepReturn

Spec == Init /\ [][Next]_vars

\* ------------------------------------------------------------------------
\* Properties
\* ------------------------------------------------------------------------
\* the step is the call of op from the idle caller, returning or raising
Called(op) == pc = "idle" /\ pc' = "returned" /\ call'.op = op

\* the state is the one in which the call of op has just returned or raised
After(op) == pc = "returned" /\ call.op = op

Baseline ==
    /\ fan_stall_enabled = FALSE
    /\ tacho_disconnected = FALSE
    /\ pwm_disconnected = FALSE
    /\ fan_degradation = 0
    /\ noise_level = 0

\* C1: whatever the fault configuration was, when reset_all_faults has
\* returned all five fault fields are at baseline: the three booleans are
\* false and both levels are 0.
C1_ResetRestoresBaseline == After("reset_all_faults") => Baseline

\* C2: while pwm_disconnected is active no step changes current_pwm, and a
\* set_pwm_duty_cycle call made then returns without raising; the reading
\* taken next is one the unchanged duty cycle produces.
C2_DisconnectedPwmIgnoresSet ==
    [][pwm_disconnected =>
          /\ current_pwm' = current_pwm
          /\ Called("set_pwm_duty_cycle") => ret'.raised = ""
          /\ Called("get_tacho_reading") /\ ~fan_stall_enabled /\ ~tacho_disconnected
                 /\ fan_degradation = 0 /\ noise_level = 0
             => ret'.value = (IF current_pwm < 20 THEN 0 ELSE current_pwm * 40)]_vars

\* C2 witness: a set_pwm_duty_cycle call with a new duty cycle has returned
\* under the fault and the old duty cycle is still in place.
C2_Witness ==
    /\ After("set_pwm_duty_cycle")
    /\ pwm_disconnected
    /\ call.arg = 50
    /\ current_pwm = 20
    /\ ret.raised = ""

\* C8: a get_tacho_reading call made while the fan is stalled or the tacho
\* is disconnected returns 0, whatever the duty cycle, degradation and noise
\* level, and changes no state of the device.
C8_FaultReadsZero ==
    [][Called("get_tacho_reading") /\ (fan_stall_enabled \/ tacho_disconnected)
          => ret'.value = 0 /\ ret'.raised = "" /\ hw' = hw]_vars

\* C8 witness: a reading of 0 returned with the tacho disconnected, at a duty
\* cycle that spins the fan, with degradation and noise configured.
C8_Witness ==
    /\ After("get_tacho_reading")
    /\ tacho_disconnected /\ ~fan_stall_enabled
    /\ current_pwm = 50
    /\ fan_degradation = 30
    /\ noise_level = 12
    /\ ret.value = 0

\* C10: simulate_fan_degradation with a level outside [0, 1] and
\* set_tacho_noise_level with a negative factor raise ValueError and leave
\* the whole fault configuration unchanged; fan_degradation stays within
\* [0, 1] and noise_level stays non-negative in every reachable state.
C10_SettersRejectOutOfRange ==
    /\ [](fan_degradation >= 0 /\ fan_degradation <= 100 /\ noise_level >= 0)
    /\ [][/\ Called("simulate_fan_degradation") /\ (call'.arg < 0 \/ call'.arg > 100)
             => ret'.raised = "ValueError" /\ hw' = hw
          /\ Called("set_tacho_noise_level") /\ call'.arg < 0
             => ret'.raised = "ValueError" /\ hw' = hw]_vars

\* C10 witness: a degradation level above 1 was rejected and the level set
\* before is still in place.
C10_Witness ==
    /\ After("simulate_fan_degradation")
    /\ call.arg = 110
    /\ ret.raised = "ValueError"
    /\ fan_degradation = 30
    /\ noise_level = 12

\* the parameter checks of validate in the order the specification lists
\* them, for the argument tuple a of a validate_pwm_vs_tacho call:
\* <<the check fails, its message>>
ListedChecks(a) ==
    << <<a[1] < 0 \/ a[1] > 100,        "Invalid PWM value">>,
       <<a[2] = None \/ a[2][1] < 0,    "Invalid expected RPM">>,
       <<a[3] < 0 \/ a[3] > 100,        "Invalid tolerance percentage">>,
       <<a[4] < 0,                      "Invalid stabilization time">>,
       <<a[5] < 1,                      "Invalid number of samples">> >>

FailedChecks(a) == {i \in 1..5 : ListedChecks(a)[i][1]}

FirstFailedCheck(a) == CHOOSE i \in FailedChecks(a) : \A j \in FailedChecks(a) : i <= j

\* C3: a validate_pwm_vs_tacho call with one or more invalid parameters
\* returns FAIL with the message of the first failing check in the order
\* pwm_value, expected_rpm, tolerance_percent, stabilization_time,
\* number_samples, has no measured_rpm, calls neither set_pwm_duty_cycle nor
\* get_tacho_reading and leaves current_pwm as it was.
C3_ParameterChecksFirst ==
    [][Called("validate_pwm_vs_tacho") /\ FailedChecks(call'.arg) # {}
          => /\ ret'.raised = ""
             /\ ret'.value.result = "FAIL"
             /\ ret'.value.measured_rpm = None
             /\ ret'.value.error_message = ListedChecks(call'.arg)[FirstFailedCheck(call'.arg)][2]
             /\ hw_calls' = <<>>
             /\ hw' = hw]_vars

\* C3 witness: a call whose pwm_value, expected_rpm and tolerance_percent are
\* all invalid has returned the message of the pwm_value check, and the duty
\* cycle set before is still in place.
C3_Witness ==
    /\ After("validate_pwm_vs_tacho")
    /\ call.arg[1] = 101 /\ call.arg[2] = None /\ call.arg[3] = 101
    /\ ret.value.result = "FAIL"
    /\ ret.value.measured_rpm = None
    /\ ret.value.error_message = "Invalid PWM value"
    /\ current_pwm = 20
    /\ hw_calls = <<>>

\* the state is the one in which validate_pwm_vs_tacho has returned a
\* measured result (all parameters were valid)
Measured == After("validate_pwm_vs_tacho") /\ ret.value.measured_rpm # None

AbsDiff(x, y) == IF x >= y THEN x - y ELSE y - x

\* C4: for valid parameters with expected_rpm > 0 the outcome is PASS exactly
\* when |measured_rpm - expected_rpm| * 100 <= tolerance_percent *
\* expected_rpm, and FAIL otherwise, whatever the stall check decided; the
\* stall message of a call with pwm_value >= 20 and measured_rpm < 100 is in
\* the message list also when the outcome is PASS.
C4_ToleranceCheckDecides ==
    Measured /\ ret.value.expected_rpm[1] > 0
    => LET r == ret.value
           m == r.measured_rpm[1]
           x == r.expected_rpm[1]
       IN  /\ r.result = (IF AbsDiff(m, x) * 100 <= call.arg[3] * x THEN "PASS" ELSE "FAIL")
           /\ r.pwm_value >= 20 /\ m < 100
              => \E i \in 1..Len(r.error_message) :
                     r.error_message[i] = "ERROR: Fan stall detected at PWM "
                                          \o ToString(r.pwm_value) \o "%"

\* C7: every result of validate_pwm_vs_tacho whose outcome is FAIL carries a
\* non-empty error message: the message text of a failed parameter check, or
\* a non-empty message list after a measurement (stall, tolerance breach).
C7_FailCarriesMessage ==
    After("validate_pwm_vs_tacho") /\ ret.value.result = "FAIL"
    => IF ret.value.measured_rpm = None
       THEN ret.value.error_message # ""
       ELSE ret.value.error_message # <<>>

\* the state is one of a sweep in progress or of a sweep that has returned
InSweep == pc = "sweep"

SweepDone == After("run_validation_sweep") /\ ret.raised = ""

\* the per-point results of the sweep, in sweep order
Points == IF InSweep THEN results ELSE ret.value[2]

\* C5: with a CsvLogger attached, after each iteration of the sweep and at
\* its return the csv file holds exactly one row per swept PWM value, in
\* sweep order, whatever the outcome of the point.
C5_OneRowPerPoint ==
    (InSweep \/ SweepDone) /\ csv_logger # None
    => /\ Len(csv_logger[1]) = Len(Points)
       /\ \A i \in 1..Len(Points) : csv_logger[1][i][1] = ToString(Points[i][1])

\* len(range(lo, hi, step)) for step # 0
RangeLen(lo, hi, step) ==
    IF step > 0
    THEN IF lo < hi THEN (hi - lo + step - 1) \div step ELSE 0
    ELSE IF lo > hi THEN (lo - hi - step - 1) \div (0 - step) ELSE 0

\* C6: a sweep (pwm_step # 0) always returns normally, for every map and
\* every fault configuration: its results hold one entry for every value of
\* range(pwm_min, pwm_max + 1, pwm_step), in order, and the entry of each
\* value missing from the expected-RPM map is a FAIL.
C6_SweepNeverAborts ==
    After("run_validation_sweep") /\ call.arg.pwm_step # 0
    => /\ ret.raised = ""
       /\ LET a == call.arg
              n == RangeLen(a.pwm_min, a.pwm_max + 1, a.pwm_step)
          IN  /\ Len(ret.value[2]) = n
              /\ \A i \in 1..n :
                    /\ ret.value[2][i][1] = a.pwm_min + (i - 1) * a.pwm_step
                    /\ ret.value[2][i][1] \notin DOMAIN a.expected_rpm_map
                       => ret.value[2][i][2].result = "FAIL"

\* C6 witness: a sweep of three values over the empty map, with the fan
\* stalled, has returned three FAIL entries.
C6_Witness ==
    /\ SweepDone
    /\ DOMAIN call.arg.expected_rpm_map = {}
    /\ fan_stall_enabled
    /\ Len(ret.value[2]) = 3
    /\ \A i \in 1..3 : ret.value[2][i][2].result = "FAIL"

FailCount(res) == Cardinality({i \in 1..Len(res) : res[i][2].result = "FAIL"})

\* C9: the failure count of a sweep equals the number of swept PWM values
\* whose recorded outcome is FAIL, after every iteration and in the returned
\* pair.
C9_FailureCount ==
    /\ InSweep => failures = FailCount(results)
    /\ SweepDone => ret.value[1] = FailCount(ret.value[2])

\* C9 witness: a returned sweep of three points with one PASS, one measured
\* FAIL and one FAIL from parameter validation, and a count of 2.
C9_Witness ==
    /\ SweepDone
    /\ ret.value[1] = 2
    /\ Len(ret.value[2]) = 3
    /\ ret.value[2][1][2].result = "PASS"
    /\ ret.value[2][2][2].result = "FAIL" /\ ret.value[2][2][2].measured_rpm # None
    /\ ret.value[2][3][2].result = "FAIL" /\ ret.value[2][3][2].measured_rpm = None

\* C11: for valid parameters with expected_rpm = 0 the tolerance check does
\* not run: whatever tolerance_percent is, the outcome is FAIL exactly when
\* pwm_value >= 20 and measured_rpm < 100, and PASS otherwise.
C11_ZeroExpectedStallDecides ==
    Measured /\ call.arg[2] = Some(0)
    => ret.value.result =
           (IF call.arg[1] >= 20 /\ ret.value.measured_rpm[1] < 100 THEN "FAIL" ELSE "PASS")

\* C11 witness: duty 50 with a measurement of 50 against expected_rpm 0 has
\* returned FAIL.
C11_Witness ==
    /\ Measured
    /\ call.arg[1] = 50 /\ call.arg[2] = Some(0)
    /\ ret.value.measured_rpm = Some(50)
    /\ ret.value.result = "FAIL"

\* C12: with the fan not stalled, the tacho connected and noise_level 0, a
\* get_tacho_reading call returns 0 when current_pwm < 20 and otherwise the
\* truncation of current_pwm * 40 * (1 - fan_degradation): current_pwm * 40
\* without degradation, 1400 at duty 50 with degradation 0.3.
C12_ReadingFollowsCurve ==
    After("get_tacho_reading") /\ ~fan_stall_enabled /\ ~tacho_disconnected /\ noise_level = 0
    => ret.value = (IF current_pwm < 20 THEN 0
                    ELSE (current_pwm * 40 * (100 - fan_degradation)) \div 100)

\* the values pwm_min, pwm_min + pwm_step, ... that are <= pwm_max
Swept(a) == {v \in a.pwm_min..a.pwm_max : (v - a.pwm_min) % a.pwm_step = 0}

\* the expected-RPM map gives the device curve at every swept value
CurveMap(a) ==
    \A v \in Swept(a) :
        /\ v \in DOMAIN a.expected_rpm_map
        /\ a.expected_rpm_map[v] = (IF v < 20 THEN 0 ELSE v * 40)

\* a sweep upwards over duty cycles (values within 0..100) with valid
\* tolerance, stabilization time and sample count
ValidSweep(a) ==
    /\ a.pwm_step > 0
    /\ Swept(a) \subseteq 0..100
    /\ a.tolerance_percent >= 0 /\ a.tolerance_percent <= 100
    /\ a.stabilization_time >= 0
    /\ a.number_samples >= 1

\* C13: with no fault active and noise 0, a sweep upwards over duty cycles
\* pwm_min, pwm_min + pwm_step, ... up to the last value <= pwm_max, with an
\* expected-RPM map that gives the device curve at every swept value and a
\* tolerance within [0, 100], returns 0 failures and one PASS entry per
\* swept value in ascending order; from 0 to 100 in steps of 20 that is
\* exactly 6 entries.
C13_CurveSweepPasses ==
    SweepDone /\ Baseline /\ ValidSweep(call.arg) /\ CurveMap(call.arg)
    => LET a == call.arg
           r == ret.value[2]
       IN  /\ ret.value[1] = 0
           /\ Len(r) = Cardinality(Swept(a))
           /\ \A i \in 1..Len(r) : r[i][1] \in Swept(a) /\ r[i][2].result = "PASS"
           /\ \A i \in 1..(Len(r) - 1) : r[i][1] < r[i + 1][1]
           /\ a.pwm_min = 0 /\ a.pwm_max = 100 /\ a.pwm_step = 20 => Len(r) = 6

\* C13 witness: the sweep from 0 to 100 in steps of 20 at tolerance 0 has
\* returned 0 failures and six entries on a device without faults.
C13_Witness ==
    /\ SweepDone /\ Baseline
    /\ call.arg.pwm_min = 0 /\ call.arg.pwm_max = 100 /\ call.arg.pwm_step = 20
    /\ call.arg.tolerance_percent = 0
    /\ CurveMap(call.arg)
    /\ ret.value[1] = 0
    /\ Len(ret.value[2]) = 6
    /\ ret.value[2][6][1] = 100 /\ ret.value[2][6][2].measured_rpm = Some(4000)

\* the readings get_tacho_reading can return right after set_pwm_duty_cycle
\* is called with duty cycle d in the current state
SetThenRead(d) ==
    get_tacho_reading(TACHO_CHANNEL,
                      set_pwm_duty_cycle(PWM_CHANNEL, d, current_pwm, pwm_disconnected),
                      fan_stall_enabled, fan_degradation, tacho_disconnected, noise_level)

\* C14: whatever fault setters ran before, when reset_all_faults has
\* returned (the first time or any time after) the device behaves as one
\* that never had a fault: set_pwm_duty_cycle(d) followed by
\* get_tacho_reading returns 0 for d < 20 and d * 40 otherwise.
C14_ResetRestoresPristine ==
    After("reset_all_faults")
    => \A d \in DutyArgs : SetThenRead(d) = {IF d < 20 THEN 0 ELSE d * 40}

\* C15: every result of validate_pwm_vs_tacho whose outcome is PASS has an
\* empty error message list, for every input and every fault configuration.
C15_PassHasNoMessage ==
    After("validate_pwm_vs_tacho") /\ ret.value.result = "PASS"
    => ret.value.error_message = <<>>

\* the calls that take no part in setting the duty cycle
FrameOps ==
    {"get_tacho_reading", "simulate_fan_stall", "simulate_fan_degradation",
     "simulate_disconnected_tacho", "simulate_disconnected_pwm", "set_tacho_noise_level",
     "reset_all_faults"}

\* C16: current_pwm starts at 0; a step changes it only by executing
\* set_pwm_duty_cycle (called directly or by validate_pwm_vs_tacho) while
\* pwm_disconnected is inactive; get_tacho_reading, every fault setter,
\* whether it returns or raises, and reset_all_faults leave it unchanged.
C16_OnlySetChangesPwm ==
    /\ current_pwm = 0
    /\ [][/\ current_pwm' # current_pwm
             => /\ ~pwm_disconnected
                /\ Called("set_pwm_duty_cycle") \/ Called("validate_pwm_vs_tacho")
                /\ hw_calls' # <<>> /\ hw_calls'[1] = "set"
          /\ (\E op \in FrameOps : Called(op)) => current_pwm' = current_pwm]_vars

\* C16 witness: set_tacho_noise_level has raised on a negative factor with
\* the duty cycle set before still in place.
C16_Witness ==
    /\ After("set_tacho_noise_level")
    /\ ret.raised = "ValueError"
    /\ current_pwm = 50

\* C17: when set_pwm_duty_cycle is called only by validate_pwm_vs_tacho and
\* run_validation_sweep, with any arguments and any interleaving of fault
\* setters and resets, current_pwm is within [0, 100] in every reachable
\* state.
C17_PwmWithinRange == current_pwm >= 0 /\ current_pwm <= 100

\* C17 witness: a sweep from 50 to 150 has returned, its point 150 rejected,
\* and the duty cycle is the 100 applied for the point before.
C17_Witness ==
    /\ SweepDone
    /\ call.arg.pwm_max = 150
    /\ ~pwm_disconnected
    /\ ret.value[2][3][1] = 150 /\ ret.value[2][3][2].result = "FAIL"
    /\ current_pwm = 100

====
